---- MODULE Spec2Model ----
(***************************************************************************)
(* Impact-metric computation engine of AINewsQuake.                        *)
(*                                                                         *)
(* scripts/build_impact_analysis.py  (full recompute)                      *)
(* scripts/retry_impact_analysis.py  (incremental, batched)                *)
(* src/repositories/timescale_repo.py (ingestion of ticks and news)        *)
(* src/adapters/databento_client.py   (tick fetches by date ranges)        *)
(* src/adapters/finnhub_client.py     (news backfill)                      *)
(*                                                                         *)
(* Timestamps are integers counting minutes.  Prices and volumes are       *)
(* integers; every derived float is an exact fraction [n, d] in lowest     *)
(* terms with d > 0, and SQL NULL / Python None in a numeric column is the *)
(* fraction with d = 0.  An Optional[dict] is a sequence of length <= 1.   *)
(* Dates are integers counting days.                                       *)
(***************************************************************************)
EXTENDS Integers, Sequences, FiniteSets, TLC

VARIABLES
    market_ticks,          \* table market_ticks: a set of rows
    ai_news_events,        \* table ai_news_events: a set of rows
    news_impact_analysis,  \* table news_impact_analysis: a set of rows
    news_df,               \* the news frame the last run loaded
    market_df,             \* the tick frame the last run loaded
    results,               \* the records the last run computed, in order
    skipped,               \* the last run's skipped counter
    total_inserted,        \* the last incremental run's count of written records
    inserted_count,        \* what the last upsert_* call returned
    last_op,               \* the operation that ran last
    repeated,              \* the last operation was a run that directly
                           \* followed a run of the same script
    pc,                    \* the statement the running script has reached
    idx,                   \* rows of news_df the loop has gone through
    batch_records,         \* retry main: the batch being filled
    impact_df,             \* full main: the frame build_impact_analysis returned
    start_table,           \* history: the impact table the running script
                           \* found when it loaded
    failed_run,            \* history: the script of the run that failed and
                           \* has not been made up for by a completed run,
                           \* and the impact table that run found
    skip_log,              \* history: every (event_id, statement) at which a
                           \* run gave up on an event
    fetch_pc,              \* the batch method of a client under way, or the
                           \* one that has returned
    from_date,             \* argument of the batch method
    to_date,               \* argument of the batch method
    batch_days,            \* argument of fetch_ohlcv_bars_batch
    current_date,          \* fetch_ohlcv_bars_batch: start of the next range
    all_ticks,             \* fetch_ohlcv_bars_batch: the ticks gathered
    current_end_date,      \* fetch_company_news_batch: end of the next fetch
    iteration,             \* fetch_company_news_batch: fetches made
    all_events,            \* fetch_company_news_batch: the events gathered
    remote_news,           \* the publication dates of the items the news
                           \* service holds
    remote_skew,           \* days by which the service's reading of the end
                           \* date lies after the client's
    fetches                \* history: the date range and the outcome of every
                           \* call of fetch_ohlcv_bars / fetch_company_news

stepvars == <<pc, idx, batch_records, impact_df, start_table, failed_run,
               skip_log>>

fetchvars == <<fetch_pc, from_date, to_date, batch_days, current_date,
               all_ticks, current_end_date, iteration, all_events,
               remote_news, remote_skew, fetches>>

scriptvars == <<market_ticks, ai_news_events, news_impact_analysis,
                news_df, market_df, results, skipped, total_inserted,
                inserted_count, last_op, repeated, stepvars>>

vars == <<scriptvars, fetchvars>>

(***************************************************************************)
(* Program constants and bounds of the model.                              *)
(***************************************************************************)
WINDOW_MINUTES == 30
BASELINE_TICKS == 120
EXPECTED_MINUTES == 30
PERCENT == 100
batch_size == 1000

\* longest tick sequence of the explicitly enumerated input family
MaxLen == 3
\* the long input family holds BASELINE_TICKS + 0..MaxExtra ticks
MaxExtra == 2
\* most rows the market_ticks table holds in the database specification
MaxTicks == 3
\* the largest run computes MaxBatches full batches and one record more
MaxBatches == 2

\* dates run from 0 to MaxDate
MaxDate == 4
\* batch_days runs from 1 to MaxBatchDays
MaxBatchDays == 3

\* the safety limit of fetch_company_news_batch
max_iterations == 100

(***************************************************************************)
(* Exact fractions standing for the floats the scripts compute.            *)
(***************************************************************************)
RECURSIVE Gcd(_, _)
Gcd(a, b) == IF b = 0 THEN a ELSE Gcd(b, a % b)

Abs(x) == IF x < 0 THEN -x ELSE x

Frac(n, d) ==
    LET g == Gcd(Abs(n), Abs(d))
        s == IF d < 0 THEN -1 ELSE 1
    IN  [n |-> (s * n) \div g, d |-> (s * d) \div g]

NULL == [n |-> 0, d |-> 0]
\* the float NaN, which is a value and not SQL NULL
NaN == [n |-> 1, d |-> 0]

RatOfInt(i) == [n |-> i, d |-> 1]
RatMul(x, y) == Frac(x.n * y.n, x.d * y.d)
RatDiv(x, y) == Frac(x.n * y.d, x.d * y.n)
RatGtZero(x) == x.d > 0 /\ x.n > 0
RatIsZero(x) == x.d > 0 /\ x.n = 0

(***************************************************************************)
(* pandas helpers on sequences of rows.                                    *)
(***************************************************************************)
\* Series.sum() of the volume column, the rows taken by halves
RECURSIVE SumVolume(_)
SumVolume(df) ==
    IF df = <<>> THEN 0
    ELSE IF Len(df) = 1 THEN df[1].volume
    ELSE LET h == Len(df) \div 2
         IN  SumVolume(SubSeq(df, 1, h)) + SumVolume(SubSeq(df, h + 1, Len(df)))

SetMax(S) == CHOOSE x \in S : \A y \in S : y <= x
SetMin(S) == CHOOSE x \in S : \A y \in S : x <= y

\* the high of the first row in place of Series.max()
MaxHigh_OfFirst(df) == df[1].high
MaxHigh(df) == SetMax({df[i].high : i \in 1..Len(df)})
MinLow(df) == SetMin({df[i].low : i \in 1..Len(df)})

\* Series.mean() of the volume column of a non-empty frame
MeanVolume(df) == Frac(SumVolume(df), Len(df))

\* DataFrame.tail(n)
TailN(df, n) ==
    IF Len(df) <= n THEN df ELSE SubSeq(df, Len(df) - n + 1, Len(df))

\* insert a row into a frame sorted by column "time", after its equals
RECURSIVE InsertByTime(_, _)
InsertByTime(row, df) ==
    IF df = <<>> THEN <<row>>
    ELSE IF row.time < Head(df).time THEN <<row>> \o df
    ELSE <<Head(df)>> \o InsertByTime(row, Tail(df))

IsSortedByTime(df) == \A i \in 1..(Len(df) - 1) : df[i].time <= df[i + 1].time

RECURSIVE InsertionSortByTime(_)
InsertionSortByTime(df) ==
    IF df = <<>> THEN <<>>
    ELSE InsertByTime(df[Len(df)],
                      InsertionSortByTime(SubSeq(df, 1, Len(df) - 1)))

\* DataFrame.sort_values('time').reset_index(drop=True): a stable sort, which
\* leaves a frame that is already in time order as it is
SortByTime(df) == IF IsSortedByTime(df) THEN df ELSE InsertionSortByTime(df)

(***************************************************************************)
(* calculate_impact_for_event, step by step.                               *)
(***************************************************************************)
\* market_df[market_df['time'] >= published_at]
MarketAfter_Strict(df, published_at) ==
    SelectSeq(df, LAMBDA t : t.time > published_at)
MarketAfter(df, published_at) ==
    SelectSeq(df, LAMBDA t : t.time >= published_at)

\* market_df[market_df['time'] < published_at]
MarketBefore_Inclusive(df, published_at) ==
    SelectSeq(df, LAMBDA t : t.time <= published_at)
MarketBefore_Unfiltered(df, published_at) == df
MarketBefore(df, published_at) ==
    SelectSeq(df, LAMBDA t : t.time < published_at)

\* market_before.tail(120)
BaselineData_All(market_before) == market_before
BaselineData(market_before) == TailN(market_before, BASELINE_TICKS)

\* reaction_start_time + timedelta(minutes=30)
WindowEnd_Earlier(reaction_start_time) == reaction_start_time - WINDOW_MINUTES
WindowEnd(reaction_start_time) == reaction_start_time + WINDOW_MINUTES

\* market_df[(time >= reaction_start_time) & (time <= window_end)]
WindowData_OpenEnd(df, reaction_start_time, window_end) ==
    SelectSeq(df, LAMBDA t : t.time >= reaction_start_time /\ t.time < window_end)
WindowData(df, reaction_start_time, window_end) ==
    SelectSeq(df, LAMBDA t : t.time >= reaction_start_time /\ t.time <= window_end)

\* ((price_30min_after - price_at_news) / price_at_news) * 100
PriceImpactPct_BaseAfter(price_30min_after, price_at_news) ==
    RatMul(RatDiv(RatOfInt(price_30min_after - price_at_news),
                  RatOfInt(price_30min_after)), RatOfInt(PERCENT))
PriceImpactPct(price_30min_after, price_at_news) ==
    RatMul(RatDiv(RatOfInt(price_30min_after - price_at_news),
                  RatOfInt(price_at_news)), RatOfInt(PERCENT))

\* the volume spike ratio, None unless the baseline average is > 0
VolumeSpikeRatio_ZeroDefault(volume_30min_total, volume_baseline_avg) ==
    IF ~RatIsZero(volume_baseline_avg) /\ RatGtZero(volume_baseline_avg)
    THEN RatDiv(RatOfInt(volume_30min_total),
                RatMul(volume_baseline_avg, RatOfInt(EXPECTED_MINUTES)))
    ELSE RatOfInt(0)
VolumeSpikeRatio(volume_30min_total, volume_baseline_avg) ==
    IF ~RatIsZero(volume_baseline_avg) /\ RatGtZero(volume_baseline_avg)
    THEN RatDiv(RatOfInt(volume_30min_total),
                RatMul(volume_baseline_avg, RatOfInt(EXPECTED_MINUTES)))
    ELSE NULL

\* ((high_30min - low_30min) / price_at_news) * 100
VolatilityImpactPct_FromClose(high_30min, low_30min, price_at_news) ==
    RatMul(RatDiv(RatOfInt(high_30min - price_at_news),
                  RatOfInt(price_at_news)), RatOfInt(PERCENT))
VolatilityImpactPct(high_30min, low_30min, price_at_news) ==
    RatMul(RatDiv(RatOfInt(high_30min - low_30min),
                  RatOfInt(price_at_news)), RatOfInt(PERCENT))

\* The dict the function returns once every frame it needs is non-empty.
ImpactDict(news_row, market_before, window_data) ==
    LET price_at_news_tick == market_before[Len(market_before)]
        price_at_news == price_at_news_tick.close
        volume_at_news == price_at_news_tick.volume
        baseline_data == BaselineData(market_before)
        volume_baseline_avg == MeanVolume(baseline_data)
        price_30min_after == window_data[Len(window_data)].close
        volume_30min_total == SumVolume(window_data)
        high_30min == MaxHigh(window_data)
        low_30min == MinLow(window_data)
    IN  [event_id |-> news_row.event_id,
         ticker |-> news_row.ticker,
         published_at |-> news_row.published_at,
         headline |-> news_row.headline,
         sentiment_score |-> news_row.sentiment_score,
         source |-> news_row.source,
         price_at_news |-> price_at_news,
         volume_at_news |-> volume_at_news,
         price_30min_after |-> price_30min_after,
         price_impact_pct |-> PriceImpactPct(price_30min_after, price_at_news),
         volume_30min_total |-> volume_30min_total,
         volume_baseline_avg |-> volume_baseline_avg,
         volume_spike_ratio |->
             VolumeSpikeRatio(volume_30min_total, volume_baseline_avg),
         high_30min |-> high_30min,
         low_30min |-> low_30min,
         volatility_impact_pct |->
             VolatilityImpactPct(high_30min, low_30min, price_at_news)]

\* build_impact_analysis.calculate_impact_for_event: <<>> is None
calculate_impact_for_event(news_row, ticker_market) ==
    LET published_at == news_row.published_at
        market_after == MarketAfter(ticker_market, published_at)
    IN  IF market_after = <<>> THEN <<>>
        ELSE
        LET reaction_start_time == market_after[1].time
            market_before == MarketBefore(ticker_market, published_at)
        IN  IF market_before = <<>> THEN <<>>
            ELSE
            LET window_end == WindowEnd(reaction_start_time)
                window_data ==
                    WindowData(ticker_market, reaction_start_time, window_end)
            IN  IF window_data = <<>> THEN <<>>
                ELSE <<ImpactDict(news_row, market_before, window_data)>>

\* retry_impact_analysis.calculate_impact_for_event: the same steps
retry_calculate_impact_for_event(news_row, ticker_market) ==
    LET published_at == news_row.published_at
        market_after == MarketAfter(ticker_market, published_at)
    IN  IF market_after = <<>> THEN <<>>
        ELSE
        LET reaction_start_time == market_after[1].time
            market_before == MarketBefore(ticker_market, published_at)
        IN  IF market_before = <<>> THEN <<>>
            ELSE
            LET window_end == WindowEnd(reaction_start_time)
                window_data ==
                    WindowData(ticker_market, reaction_start_time, window_end)
            IN  IF window_data = <<>> THEN <<>>
                ELSE <<ImpactDict(news_row, market_before, window_data)>>

(***************************************************************************)
(* The orchestrators.                                                      *)
(***************************************************************************)
\* market_by_ticker.get(ticker): the ticker's rows sorted by time; <<>> is None
market_by_ticker_AllTickers(df, ticker) == SortByTime(df)
market_by_ticker_AsLoaded(df, ticker) ==
    SelectSeq(df, LAMBDA t : t.ticker = ticker)
market_by_ticker(df, ticker) ==
    SortByTime(SelectSeq(df, LAMBDA t : t.ticker = ticker))

\* "if ticker_market is None or len(ticker_market) == 0: skipped += 1;
\* continue", on the counters of the loop
NoMarketData_Uncounted(acc) == acc
NoMarketData(acc) == [acc EXCEPT !.skipped = @ + 1]

\* build_impact_analysis: the loop over news_df.iterrows()
RECURSIVE ProcessNews(_, _, _)
ProcessNews(news, ticks, acc) ==
    IF news = <<>> THEN acc
    ELSE IF Len(news) > 1
    THEN \* the rows in order, by halves: the body only appends and counts
         LET h == Len(news) \div 2
             none == [results |-> <<>>, skipped |-> 0]
             first == ProcessNews(SubSeq(news, 1, h), ticks, acc)
             second == ProcessNews(SubSeq(news, h + 1, Len(news)), ticks, none)
         IN  [results |-> first.results \o second.results,
              skipped |-> first.skipped + second.skipped]
    ELSE
    LET news_row == news[1]
        ticker_market == market_by_ticker(ticks, news_row.ticker)
    IN  IF ticker_market = <<>>
        THEN NoMarketData(acc)
        ELSE
        LET impact == calculate_impact_for_event(news_row, ticker_market)
        IN  IF impact # <<>>
            THEN [acc EXCEPT !.results = Append(@, impact[1])]
            ELSE [acc EXCEPT !.skipped = @ + 1]

build_impact_analysis_LastRowUnvisited(news, ticks) ==
    ProcessNews(SubSeq(news, 1, Len(news) - 1), ticks,
                [results |-> <<>>, skipped |-> 0])
build_impact_analysis(news, ticks) ==
    ProcessNews(news, ticks, [results |-> <<>>, skipped |-> 0])

\* pd.DataFrame(results): a column holding floats and None becomes a float
\* column with NaN for None; a column of None alone stays as it is
DataFrameOf(records) ==
    IF \E i \in 1..Len(records) : records[i].volume_spike_ratio # NULL
    THEN [i \in 1..Len(records) |->
             IF records[i].volume_spike_ratio = NULL
             THEN [records[i] EXCEPT !.volume_spike_ratio = NaN]
             ELSE records[i]]
    ELSE records

\* INSERT ... ON CONFLICT (event_id) DO UPDATE SET <seven columns>
UpsertFull_AlwaysInsert(table, rec) == table \cup {rec}
UpsertFull_Accumulate(table, rec) ==
    IF \E r \in table : r.event_id = rec.event_id
    THEN {IF r.event_id = rec.event_id
          THEN [r EXCEPT !.price_impact_pct = rec.price_impact_pct,
                         !.volume_spike_ratio = rec.volume_spike_ratio,
                         !.volatility_impact_pct = rec.volatility_impact_pct,
                         !.price_30min_after = rec.price_30min_after,
                         !.volume_30min_total = @ + rec.volume_30min_total,
                         !.high_30min = rec.high_30min,
                         !.low_30min = rec.low_30min]
          ELSE r : r \in table}
    ELSE table \cup {rec}
UpsertFull(table, rec) ==
    IF \E r \in table : r.event_id = rec.event_id
    THEN {IF r.event_id = rec.event_id
          THEN [r EXCEPT !.price_impact_pct = rec.price_impact_pct,
                         !.volume_spike_ratio = rec.volume_spike_ratio,
                         !.volatility_impact_pct = rec.volatility_impact_pct,
                         !.price_30min_after = rec.price_30min_after,
                         !.volume_30min_total = rec.volume_30min_total,
                         !.high_30min = rec.high_30min,
                         !.low_30min = rec.low_30min]
          ELSE r : r \in table}
    ELSE table \cup {rec}

\* cursor.executemany(insert_query, records): one statement per row, in order
RECURSIVE ExecuteManyFull(_, _)
ExecuteManyFull(table, records) ==
    IF records = <<>> THEN table
    ELSE ExecuteManyFull(UpsertFull(table, Head(records)), Tail(records))

\* the event_ids of the rows are pairwise different
DistinctIds(records) ==
    Cardinality({records[i].event_id : i \in 1..Len(records)}) = Len(records)

\* the place of every event_id among the rows lo..hi of records
RECURSIVE PlaceOfId(_, _, _)
PlaceOfId(records, lo, hi) ==
    IF lo = hi THEN records[lo].event_id :> lo
    ELSE LET mid == (lo + hi) \div 2
         IN  PlaceOfId(records, lo, mid) @@ PlaceOfId(records, mid + 1, hi)

\* insert_impact_analysis: executemany over the rows of impact_df, one commit.
\* A statement touches the stored row of its own event_id only, so rows of
\* pairwise different event_ids are applied each to that row.
insert_impact_analysis(table, records) ==
    IF records = <<>> THEN table
    ELSE IF DistinctIds(records)
    THEN LET place == PlaceOfId(records, 1, Len(records))
             ids == DOMAIN place
             met == {r \in table : r.event_id \in ids}
             stored == {r.event_id : r \in met}
         IN  {r \in table : r.event_id \notin ids}
             \cup UNION {UpsertFull({r}, records[place[r.event_id]]) : r \in met}
             \cup UNION {UpsertFull({}, records[i]) :
                         i \in {j \in 1..Len(records) :
                                    records[j].event_id \notin stored}}
    ELSE ExecuteManyFull(table, records)

\* INSERT ... ON CONFLICT (event_id) DO UPDATE SET <three columns>
UpsertRetry(table, rec) ==
    IF \E r \in table : r.event_id = rec.event_id
    THEN {IF r.event_id = rec.event_id
          THEN [r EXCEPT !.price_impact_pct = rec.price_impact_pct,
                         !.volume_spike_ratio = rec.volume_spike_ratio,
                         !.volatility_impact_pct = rec.volatility_impact_pct]
          ELSE r : r \in table}
    ELSE table \cup {rec}

\* cursor.executemany(insert_query, records): one statement per row, in order
RECURSIVE ExecuteManyRetry(_, _)
ExecuteManyRetry(table, records) ==
    IF records = <<>> THEN table
    ELSE ExecuteManyRetry(UpsertRetry(table, Head(records)), Tail(records))

\* insert_impact_batch: executemany over the batch, one commit; evaluated as
\* insert_impact_analysis is
insert_impact_batch(table, records) ==
    IF records = <<>> THEN table
    ELSE IF DistinctIds(records)
    THEN LET place == PlaceOfId(records, 1, Len(records))
             ids == DOMAIN place
             met == {r \in table : r.event_id \in ids}
             stored == {r.event_id : r \in met}
         IN  {r \in table : r.event_id \notin ids}
             \cup UNION {UpsertRetry({r}, records[place[r.event_id]]) : r \in met}
             \cup UNION {UpsertRetry({}, records[i]) :
                         i \in {j \in 1..Len(records) :
                                    records[j].event_id \notin stored}}
    ELSE ExecuteManyRetry(table, records)

\* retry main: the loop over news_df.iterrows(), flushing full batches
RECURSIVE RetryLoop(_, _, _)
RetryLoop(news, ticks, st) ==
    IF news = <<>> THEN st
    ELSE
    LET news_row == Head(news)
        ticker_market == market_by_ticker(ticks, news_row.ticker)
    IN  IF ticker_market = <<>>
        THEN RetryLoop(Tail(news), ticks, NoMarketData(st))
        ELSE
        LET impact == retry_calculate_impact_for_event(news_row, ticker_market)
        IN  IF impact # <<>>
            THEN
            LET batch == Append(st.batch_records, impact[1])
            IN  IF Len(batch) >= batch_size
                THEN RetryLoop(Tail(news), ticks,
                         [st EXCEPT
                            !.table = insert_impact_batch(@, batch),
                            !.total_inserted = @ + Len(batch),
                            !.batch_records = <<>>,
                            !.computed = Append(@, impact[1])])
                ELSE RetryLoop(Tail(news), ticks,
                         [st EXCEPT
                            !.batch_records = batch,
                            !.computed = Append(@, impact[1])])
            ELSE RetryLoop(Tail(news), ticks, [st EXCEPT !.skipped = @ + 1])

\* retry main from "batch_size = 1000" to the final batch
RetryProcess(news, ticks, table) ==
    LET st == RetryLoop(news, ticks,
                        [batch_records |-> <<>>, total_inserted |-> 0,
                         skipped |-> 0, table |-> table, computed |-> <<>>])
    IN  IF st.batch_records # <<>>
        THEN [st EXCEPT !.table = insert_impact_batch(@, st.batch_records),
                        !.total_inserted = @ + Len(st.batch_records),
                        !.batch_records = <<>>]
        ELSE st

(***************************************************************************)
(* The load queries.  ORDER BY leaves the order of equal keys open, so a   *)
(* load is any of the orders the query allows.                             *)
(***************************************************************************)
\* the rows of one sort key, which ORDER BY returns in any order
RECURSIVE AnyOrder(_)
AnyOrder(S) ==
    IF S = {} THEN {<<>>}
    ELSE UNION {{<<x>> \o s : s \in AnyOrder(S \ {x})} : x \in S}

\* a key that parts two or more keys: the mean of the least and the greatest
PartingKey(keys) == (SetMin(keys) - SetMin({-k : k \in keys})) \div 2

\* ORDER BY time: the rows up to the parting key, then the others
RECURSIVE OrdersByTime(_)
OrdersByTime(S) ==
    LET keys == {x.time : x \in S}
    IN  IF Cardinality(keys) <= 1 THEN AnyOrder(S)
        ELSE LET k == PartingKey(keys)
             IN  {lo \o hi : lo \in OrdersByTime({x \in S : x.time <= k}),
                             hi \in OrdersByTime({x \in S : x.time > k})}

\* ORDER BY published_at, likewise
RECURSIVE OrdersByPublished(_)
OrdersByPublished(S) ==
    LET keys == {x.published_at : x \in S}
    IN  IF Cardinality(keys) <= 1 THEN AnyOrder(S)
        ELSE LET k == PartingKey(keys)
             IN  {lo \o hi :
                    lo \in OrdersByPublished({x \in S : x.published_at <= k}),
                    hi \in OrdersByPublished({x \in S : x.published_at > k})}

\* SELECT ... FROM ai_news_events ORDER BY published_at
load_news_events_Descending(news_table) ==
    {[i \in 1..Len(o) |-> o[Len(o) + 1 - i]] : o \in OrdersByPublished(news_table)}
load_news_events(news_table) == OrdersByPublished(news_table)

\* SELECT ... FROM market_ticks ORDER BY time
load_market_ticks(tick_table) == OrdersByTime(tick_table)

\* ... LEFT JOIN news_impact_analysis i ... WHERE i.event_id IS NULL ORDER BY ...
load_news_events_without_impact_All(news_table, impact_table) ==
    OrdersByPublished(news_table)
load_news_events_without_impact(news_table, impact_table) ==
    LET joined == {i.event_id : i \in impact_table}
    IN  OrdersByPublished({e \in news_table : e.event_id \notin joined})

(***************************************************************************)
(* Ingestion (TimescaleRepository).                                        *)
(***************************************************************************)
\* INSERT INTO market_ticks ... ON CONFLICT (time, ticker) DO NOTHING
RECURSIVE InsertTicks_Overwrite(_, _)
InsertTicks_Overwrite(st, ticks) ==
    IF ticks = <<>> THEN st
    ELSE LET tick == Head(ticks)
             met == {r \in st.table : r.ticker = tick.ticker /\ r.time = tick.time}
         IN  InsertTicks_Overwrite(
                 [table |-> (st.table \ met) \cup {tick},
                  inserted_count |-> st.inserted_count
                                     + (IF met = {} THEN 1 ELSE 0)],
                 Tail(ticks))
RECURSIVE InsertTicks(_, _)
InsertTicks(st, ticks) ==
    IF ticks = <<>> THEN st
    ELSE LET tick == Head(ticks)
         IN  IF \E r \in st.table : r.ticker = tick.ticker /\ r.time = tick.time
             THEN InsertTicks(st, Tail(ticks))
             ELSE InsertTicks([table |-> st.table \cup {tick},
                               inserted_count |-> st.inserted_count + 1],
                              Tail(ticks))

upsert_market_ticks(table, ticks) ==
    InsertTicks([table |-> table, inserted_count |-> 0], ticks)

\* INSERT INTO ai_news_events ... ON CONFLICT ON CONSTRAINT uq_news_event DO NOTHING
RECURSIVE InsertEvents_Overwrite(_, _)
InsertEvents_Overwrite(st, events) ==
    IF events = <<>> THEN st
    ELSE LET event == Head(events)
             met == {r \in st.table : /\ r.ticker = event.ticker
                                      /\ r.published_at = event.published_at
                                      /\ r.headline = event.headline}
         IN  InsertEvents_Overwrite(
                 [table |-> (st.table \ met) \cup {event},
                  inserted_count |-> st.inserted_count
                                     + (IF met = {} THEN 1 ELSE 0)],
                 Tail(events))
RECURSIVE InsertEvents(_, _)
InsertEvents(st, events) ==
    IF events = <<>> THEN st
    ELSE LET event == Head(events)
         IN  IF \E r \in st.table : /\ r.ticker = event.ticker
                                    /\ r.published_at = event.published_at
                                    /\ r.headline = event.headline
             THEN InsertEvents(st, Tail(events))
             ELSE InsertEvents([table |-> st.table \cup {event},
                                inserted_count |-> st.inserted_count + 1],
                               Tail(events))

upsert_news_events(table, events) ==
    InsertEvents([table |-> table, inserted_count |-> 0], events)

(***************************************************************************)
(* Input universes.                                                        *)
(***************************************************************************)
MkTick(ticker, time, bar) ==
    [time |-> time, ticker |-> ticker, open |-> bar.open, high |-> bar.high,
     low |-> bar.low, close |-> bar.close, volume |-> bar.volume]

\* FinnhubClient._generate_event_id: a function of ticker, time and headline
MkEvent(ticker, published_at, headline, sentiment_score) ==
    [event_id |-> <<"fh", ticker, published_at, headline>>,
     ticker |-> ticker, published_at |-> published_at,
     headline |-> headline, sentiment_score |-> sentiment_score,
     source |-> "finnhub"]

Bars ==
    {[open |-> 100, high |-> 100, low |-> 100, close |-> 100, volume |-> 1000],
     [open |-> 100, high |-> 106, low |-> 99, close |-> 103, volume |-> 2000],
     [open |-> 103, high |-> 104, low |-> 101, close |-> 102, volume |-> 0]}

\* tick and publication times around a window of WINDOW_MINUTES
CalcTimes == {0, 1, 2, 31, 32, 33}
CalcPubTimes == {0, 1, 2, 3, 31, 32, 33, 34}

\* sets of at most n ticks of ticker X at distinct times above lo
RECURSIVE TickSets(_, _)
TickSets(n, lo) ==
    {{}} \cup
    (IF n = 0 THEN {}
     ELSE UNION {{{MkTick("X", t, b)} \cup S : b \in Bars, S \in TickSets(n - 1, t)} :
                 t \in {u \in CalcTimes : u > lo}})

OtherTicks == {MkTick("Y", 1, b) : b \in {x \in Bars : x.close = 103}}
OtherEvent == MkEvent("Y", 2, "hy", 0)

\* the long family: n ticks one minute apart, an overnight gap after tick
\* gapAt, volume v1 on the first k ticks and v2 on the others
LongTime(i, gapAt) == IF gapAt > 0 /\ i > gapAt THEN i + 1000 ELSE i
LongFrame(n, k, v1, v2, gapAt) ==
    [i \in 1..n |->
        MkTick("X", LongTime(i, gapAt),
               [open |-> 100, high |-> 101, low |-> 99, close |-> 100,
                volume |-> IF i <= k THEN v1 ELSE v2])]
LongVolumes == {0, 1, 3}
LongGaps == {0, 110}
LongPubIndex(n) == {2, n + 1} \cup (BASELINE_TICKS..n)

(***************************************************************************)
(* Specification Spec: the database, ingestion and the two orchestrators.  *)
(***************************************************************************)
DbTicks ==
    {MkTick("X", 1, b) : b \in Bars}
    \cup {MkTick("X", t, b) : t \in {2, 4}, b \in {x \in Bars : x.volume > 0}}
    \cup {MkTick("Y", 1, b) : b \in {x \in Bars : x.close = 100}}
    \cup {MkTick("Y", 5, b) : b \in {x \in Bars : x.close = 103}}

DbEvents ==
    {MkEvent("X", 3, "h1", 1), MkEvent("X", 3, "h1", 0),
     MkEvent("X", 2, "h2", 0), MkEvent("Y", 3, "h3", 0)}

\* the lists handed to upsert_market_ticks: empty, one tick, or two ticks of
\* one (ticker, time) key; other lists act as successive calls do
TickLists ==
    {<<>>} \cup {<<t>> : t \in DbTicks}
    \cup {l \in DbTicks \X DbTicks :
             l[1].ticker = l[2].ticker /\ l[1].time = l[2].time}

\* the lists handed to upsert_news_events, likewise
EventLists ==
    {<<>>} \cup {<<e>> : e \in DbEvents}
    \cup {l \in DbEvents \X DbEvents : l[1].event_id = l[2].event_id}

\* no script is running and none has run
NoFailure == [script |-> "none", table |-> {}]

NoSteps ==
    /\ pc = "idle"
    /\ idx = 0
    /\ batch_records = <<>>
    /\ impact_df = <<>>
    /\ start_table = {}
    /\ failed_run = NoFailure
    /\ skip_log = {}

\* no batch method of a client is under way
NoFetch ==
    /\ fetch_pc = "none"
    /\ from_date = 0
    /\ to_date = 0
    /\ batch_days = 0
    /\ current_date = 0
    /\ all_ticks = <<>>
    /\ current_end_date = 0
    /\ iteration = 0
    /\ all_events = <<>>
    /\ remote_news = {}
    /\ remote_skew = 0
    /\ fetches = <<>>

NoRun ==
    /\ news_df = <<>>
    /\ market_df = <<>>
    /\ results = <<>>
    /\ skipped = 0
    /\ total_inserted = 0

\* an ingestion process holds none of the orchestrators' variables
ClearRun ==
    /\ news_df' = <<>>
    /\ market_df' = <<>>
    /\ results' = <<>>
    /\ skipped' = 0
    /\ total_inserted' = 0

Init ==
    /\ market_ticks = {}
    /\ ai_news_events = {}
    /\ news_impact_analysis = {}
    /\ NoRun
    /\ inserted_count = 0
    /\ last_op = "init"
    /\ repeated = FALSE
    /\ NoSteps
    /\ NoFetch

\* TimescaleRepository.upsert_market_ticks(ticks)
UpsertMarketTicks ==
    \E ticks \in TickLists :
        LET out == upsert_market_ticks(market_ticks, ticks)
        IN  /\ Cardinality(out.table) <= MaxTicks
            /\ market_ticks' = out.table
            /\ inserted_count' = out.inserted_count
            /\ last_op' = "upsert_market_ticks"
            /\ repeated' = FALSE
            /\ ClearRun
            /\ UNCHANGED <<ai_news_events, news_impact_analysis,
                         stepvars, fetchvars>>

\* TimescaleRepository.upsert_news_events(events)
UpsertNewsEvents ==
    \E events \in EventLists :
        LET out == upsert_news_events(ai_news_events, events)
        IN  /\ ai_news_events' = out.table
            /\ inserted_count' = out.inserted_count
            /\ last_op' = "upsert_news_events"
            /\ repeated' = FALSE
            /\ ClearRun
            /\ UNCHANGED <<market_ticks, news_impact_analysis,
                         stepvars, fetchvars>>

\* build_impact_analysis.main
FullRun ==
    \E n \in load_news_events(ai_news_events),
       m \in load_market_ticks(market_ticks) :
        LET out == build_impact_analysis(n, m)
        IN  /\ news_df' = n
            /\ market_df' = m
            /\ results' = out.results
            /\ skipped' = out.skipped
            /\ news_impact_analysis' =
                   IF out.results = <<>> THEN news_impact_analysis
                   ELSE insert_impact_analysis(news_impact_analysis,
                                               DataFrameOf(out.results))
            /\ total_inserted' = 0
            /\ last_op' = "build"
            /\ repeated' = (last_op = "build")
            /\ UNCHANGED <<market_ticks, ai_news_events, inserted_count,
                         stepvars, fetchvars>>

\* retry_impact_analysis.main
RetryRun ==
    \E n \in load_news_events_without_impact(ai_news_events,
                                             news_impact_analysis) :
        /\ news_df' = n
        /\ last_op' = "retry"
        /\ repeated' = (last_op = "retry")
        /\ UNCHANGED <<market_ticks, ai_news_events, inserted_count,
                     stepvars, fetchvars>>
        /\ IF n = <<>>
           THEN /\ market_df' = <<>>
                /\ results' = <<>>
                /\ skipped' = 0
                /\ total_inserted' = 0
                /\ UNCHANGED news_impact_analysis
           ELSE \E m \in load_market_ticks(market_ticks) :
                    LET st == RetryProcess(n, m, news_impact_analysis)
                    IN  /\ market_df' = m
                        /\ results' = st.computed
                        /\ skipped' = st.skipped
                        /\ total_inserted' = st.total_inserted
                        /\ news_impact_analysis' = st.table

Next ==
    \/ UpsertMarketTicks
    \/ UpsertNewsEvents
    \/ FullRun
    \/ RetryRun

Spec == Init /\ [][Next]_vars

(***************************************************************************)
(* Specification SpecCalc: the orchestrator loops as functions of the two  *)
(* frames they are given, over enumerated and long tick sequences.         *)
(***************************************************************************)
CalcInputs ==
    {[news |-> n, ticks |-> m] :
        n \in UNION {{<<MkEvent("X", p, "h1", 1)>>} \cup
                     OrdersByPublished({MkEvent("X", p, "h1", 1), OtherEvent}) :
                     p \in CalcPubTimes},
        m \in UNION {OrdersByTime(S) \cup
                     UNION {OrdersByTime(S \cup {o}) : o \in OtherTicks} :
                     S \in TickSets(MaxLen, -1)}}

LongInputs ==
    UNION {UNION {{[news |-> <<MkEvent("X", LongTime(j, g), "h1", 1)>>,
                    ticks |-> LongFrame(n, k, v1, v2, g)] :
                      v1 \in LongVolumes, v2 \in LongVolumes,
                      g \in LongGaps, j \in LongPubIndex(n)} :
                  k \in 0..(n - BASELINE_TICKS + 1)} :
           n \in BASELINE_TICKS..(BASELINE_TICKS + MaxExtra)}

InitCalc ==
    /\ market_ticks = {}
    /\ ai_news_events = {}
    /\ news_impact_analysis = {}
    /\ \E in \in CalcInputs \cup LongInputs :
           /\ news_df = in.news
           /\ market_df = in.ticks
    /\ results = <<>>
    /\ skipped = 0
    /\ total_inserted = 0
    /\ inserted_count = 0
    /\ last_op = "input"
    /\ repeated = FALSE
    /\ NoSteps
    /\ NoFetch

\* build_impact_analysis(news_df, market_df)
BuildImpactAnalysis ==
    /\ last_op = "input"
    /\ LET out == build_impact_analysis(news_df, market_df)
       IN  /\ results' = out.results
           /\ skipped' = out.skipped
    /\ last_op' = "build"
    /\ repeated' = (last_op = "build")
    /\ UNCHANGED <<market_ticks, ai_news_events, news_impact_analysis,
                   news_df, market_df, total_inserted, inserted_count,
                   stepvars, fetchvars>>

\* the batched loop of retry main on the frames it loaded
RetryImpactAnalysis ==
    /\ last_op = "input"
    /\ LET st == RetryProcess(news_df, market_df, news_impact_analysis)
       IN  /\ results' = st.computed
           /\ skipped' = st.skipped
           /\ total_inserted' = st.total_inserted
           /\ news_impact_analysis' = st.table
    /\ last_op' = "retry"
    /\ repeated' = (last_op = "retry")
    /\ UNCHANGED <<market_ticks, ai_news_events, news_df, market_df,
                   inserted_count, stepvars, fetchvars>>

NextCalc ==
    \/ BuildImpactAnalysis
    \/ RetryImpactAnalysis

SpecCalc == InitCalc /\ [][NextCalc]_vars

(***************************************************************************)
(* The two scripts in steps: the loads, the loop up to the next write, and *)
(* each write (executemany and commit), so that a database error can end a *)
(* run at a write and other processes can act between the steps.           *)
(***************************************************************************)
\* the frame whose emptiness made the loop body give up on news_row
SkippedAt(news_row, ticker_market) ==
    IF ticker_market = <<>> THEN "ticker_market"
    ELSE IF MarketAfter(ticker_market, news_row.published_at) = <<>>
    THEN "market_after"
    ELSE IF MarketBefore(ticker_market, news_row.published_at) = <<>>
    THEN "market_before"
    ELSE "window_data"

\* the rows among news that got no record among computed, each with the frame
\* the loop body gave up on
SkipsOf(news, ticks, computed) ==
    LET done == {computed[i].event_id : i \in 1..Len(computed)}
    IN  {<<news[i].event_id,
           SkippedAt(news[i], market_by_ticker(ticks, news[i].ticker))>> :
            i \in {j \in 1..Len(news) : news[j].event_id \notin done}}

\* FillBatch with the batch written once it holds more than batch_size records
RECURSIVE FillBatch_LateFlush(_, _, _)
FillBatch_LateFlush(news, ticks, st) ==
    IF news = <<>> \/ Len(st.batch_records) > batch_size THEN st
    ELSE IF Len(news) > 1
    THEN LET h == Len(news) \div 2
             first == FillBatch_LateFlush(SubSeq(news, 1, h), ticks, st)
         IN  IF Len(first.batch_records) > batch_size THEN first
             ELSE FillBatch_LateFlush(SubSeq(news, h + 1, Len(news)), ticks,
                                      first)
    ELSE
    LET news_row == news[1]
        ticker_market == market_by_ticker(ticks, news_row.ticker)
        impact == IF ticker_market = <<>> THEN <<>>
                  ELSE retry_calculate_impact_for_event(news_row, ticker_market)
    IN  IF impact # <<>>
        THEN [st EXCEPT !.batch_records = Append(@, impact[1]),
                        !.idx = @ + 1]
        ELSE [st EXCEPT !.skipped = @ + 1, !.idx = @ + 1]

\* the loop of retry main over the rows news, up to the end of the iteration
\* that fills the batch; the rows are taken by halves
RECURSIVE FillBatch(_, _, _)
FillBatch(news, ticks, st) ==
    IF news = <<>> \/ Len(st.batch_records) >= batch_size THEN st
    ELSE IF Len(news) > 1
    THEN LET h == Len(news) \div 2
             first == FillBatch(SubSeq(news, 1, h), ticks, st)
         IN  IF Len(first.batch_records) >= batch_size THEN first
             ELSE FillBatch(SubSeq(news, h + 1, Len(news)), ticks, first)
    ELSE
    LET news_row == news[1]
        ticker_market == market_by_ticker(ticks, news_row.ticker)
        impact == IF ticker_market = <<>> THEN <<>>
                  ELSE retry_calculate_impact_for_event(news_row, ticker_market)
    IN  IF impact # <<>>
        THEN [st EXCEPT !.batch_records = Append(@, impact[1]),
                        !.idx = @ + 1]
        ELSE [st EXCEPT !.skipped = @ + 1, !.idx = @ + 1]

\* a failed write: the except clause of main exits and the finally clause
\* closes the connection, which drops what the transaction wrote
close(committed, written) == committed

\* the rows executemany has sent when the database raises: none, one, all
\* but one, or all of them with the commit failing
FailPoints(n) == {k \in {0, 1, n - 1, n} : k >= 0}

\* the script ends: its frames and lists go with the process; the counters
\* it printed stay in skipped and total_inserted
ProcessExit ==
    /\ pc' = "idle"
    /\ news_df' = <<>>
    /\ market_df' = <<>>
    /\ results' = <<>>
    /\ idx' = 0
    /\ batch_records' = <<>>
    /\ impact_df' = <<>>
    /\ start_table' = {}

\* main of build_impact_analysis.py down to the call of insert_impact_analysis
FullLoad ==
    /\ pc = "idle"
    /\ \E n \in load_news_events(ai_news_events),
          m \in load_market_ticks(market_ticks) :
           LET out == build_impact_analysis(n, m)
           IN  /\ skipped' = out.skipped
               /\ skip_log' = skip_log \cup SkipsOf(n, m, out.results)
               /\ IF out.results = <<>>
                  THEN /\ ProcessExit
                       /\ last_op' = "build"
                       /\ failed_run' = NoFailure
                  ELSE /\ start_table' = news_impact_analysis
                       /\ failed_run' = IF last_op = "failed" THEN failed_run
                                        ELSE NoFailure
                       /\ news_df' = n
                       /\ market_df' = m
                       /\ impact_df' = DataFrameOf(out.results)
                       /\ results' = <<>>
                       /\ idx' = Len(n)
                       /\ batch_records' = <<>>
                       /\ pc' = "build_insert"
                       /\ last_op' = "main"
    /\ total_inserted' = 0
    /\ repeated' = FALSE
    /\ UNCHANGED <<market_ticks, ai_news_events, news_impact_analysis,
                   inserted_count>>
    /\ UNCHANGED fetchvars

\* insert_impact_analysis(conn, impact_df) and the rest of main
FullInsert ==
    /\ pc = "build_insert"
    /\ news_impact_analysis' =
           insert_impact_analysis(news_impact_analysis, impact_df)
    /\ ProcessExit
    /\ last_op' = "build"
    /\ failed_run' = NoFailure
    /\ UNCHANGED <<market_ticks, ai_news_events, skipped, total_inserted,
                   inserted_count, repeated, skip_log>>
    /\ UNCHANGED fetchvars

\* main of retry_impact_analysis.py down to the loop
RetryLoad ==
    /\ pc = "idle"
    /\ \E n \in load_news_events_without_impact(ai_news_events,
                                                news_impact_analysis) :
           IF n = <<>>
           THEN /\ ProcessExit
                /\ last_op' = "retry"
                /\ failed_run' = NoFailure
           ELSE /\ start_table' = news_impact_analysis
                /\ failed_run' = IF last_op = "failed" THEN failed_run
                                 ELSE NoFailure
                /\ news_df' = n
                /\ \E m \in load_market_ticks(market_ticks) : market_df' = m
                /\ results' = <<>>
                /\ idx' = 0
                /\ batch_records' = <<>>
                /\ impact_df' = <<>>
                /\ pc' = "retry_loop"
                /\ last_op' = "main"
    /\ skipped' = 0
    /\ total_inserted' = 0
    /\ repeated' = FALSE
    /\ UNCHANGED <<market_ticks, ai_news_events, news_impact_analysis,
                   inserted_count, skip_log>>
    /\ UNCHANGED fetchvars

\* the loop of retry main up to the next call of insert_impact_batch, or to
\* the end of main when no record is left to write
RetryFill ==
    /\ pc = "retry_loop"
    /\ LET rest == SubSeq(news_df, idx + 1, Len(news_df))
           st == FillBatch(rest, market_df,
                           [batch_records |-> batch_records,
                            skipped |-> skipped, idx |-> idx])
       IN  /\ skipped' = st.skipped
           /\ skip_log' = skip_log \cup
                  SkipsOf(SubSeq(news_df, idx + 1, st.idx), market_df,
                          st.batch_records)
           /\ IF st.batch_records # <<>>
              THEN /\ batch_records' = st.batch_records
                   /\ idx' = st.idx
                   /\ pc' = "retry_insert"
                   /\ UNCHANGED <<news_df, market_df, results, impact_df,
                                  last_op, start_table, failed_run>>
              ELSE /\ ProcessExit
                   /\ last_op' = "retry"
                   /\ failed_run' = NoFailure
    /\ UNCHANGED <<market_ticks, ai_news_events, news_impact_analysis,
                   total_inserted, inserted_count, repeated>>
    /\ UNCHANGED fetchvars

\* insert_impact_batch(conn, batch_records), total_inserted += len(batch) and
\* batch_records = []; after the last row of news_df main ends
RetryInsert ==
    /\ pc = "retry_insert"
    /\ news_impact_analysis' =
           insert_impact_batch(news_impact_analysis, batch_records)
    /\ total_inserted' = total_inserted + Len(batch_records)
    /\ IF idx < Len(news_df)
       THEN /\ batch_records' = <<>>
            /\ pc' = "retry_loop"
            /\ UNCHANGED <<news_df, market_df, results, idx, impact_df,
                           last_op, start_table, failed_run>>
       ELSE /\ ProcessExit
            /\ last_op' = "retry"
            /\ failed_run' = NoFailure
    /\ UNCHANGED <<market_ticks, ai_news_events, skipped, inserted_count,
                   repeated, skip_log>>
    /\ UNCHANGED fetchvars

\* executemany or commit raises in insert_impact_analysis or in
\* insert_impact_batch
WriteFails ==
    /\ pc \in {"build_insert", "retry_insert"}
    /\ LET records == IF pc = "build_insert" THEN impact_df ELSE batch_records
       IN  \E k \in FailPoints(Len(records)) :
               news_impact_analysis' =
                   close(news_impact_analysis,
                         IF pc = "build_insert"
                         THEN insert_impact_analysis(news_impact_analysis,
                                                     SubSeq(records, 1, k))
                         ELSE insert_impact_batch(news_impact_analysis,
                                                  SubSeq(records, 1, k)))
    /\ ProcessExit
    /\ last_op' = "failed"
    /\ failed_run' = IF failed_run # NoFailure THEN failed_run
                     ELSE [script |-> IF pc = "build_insert" THEN "build"
                                      ELSE "retry",
                           table |-> start_table]
    /\ UNCHANGED <<market_ticks, ai_news_events, skipped, total_inserted,
                   inserted_count, repeated, skip_log>>
    /\ UNCHANGED fetchvars

(***************************************************************************)
(* Specification SpecBatch: one script at a time on fixed tables, small    *)
(* ones and ones of more than batch_size events, with database errors.     *)
(***************************************************************************)
\* n events of ticker X one minute apart between two ticks, one event after
\* the last tick and one event of a ticker without ticks
BigEvents(n) ==
    {MkEvent("X", i, "h1", 0) : i \in 1..n}
    \cup {MkEvent("X", n + 2, "h1", 0), MkEvent("Y", 0, "h3", 0)}
BigTicks(n) ==
    {MkTick("X", 0, [open |-> 100, high |-> 100, low |-> 100, close |-> 100,
                     volume |-> 1000]),
     MkTick("X", n + 1, [open |-> 100, high |-> 106, low |-> 99,
                         close |-> 103, volume |-> 2000])}
BigSizes == {batch_size, MaxBatches * batch_size + 1}

SmallTickPool ==
    {MkTick("X", 1, [open |-> 103, high |-> 104, low |-> 101, close |-> 102,
                     volume |-> 0]),
     MkTick("X", 2, [open |-> 100, high |-> 106, low |-> 99, close |-> 103,
                     volume |-> 2000]),
     MkTick("X", 4, [open |-> 100, high |-> 100, low |-> 100, close |-> 100,
                     volume |-> 1000]),
     MkTick("Y", 1, [open |-> 100, high |-> 100, low |-> 100, close |-> 100,
                     volume |-> 1000])}
SmallEvents ==
    {MkEvent("X", 3, "h1", 1), MkEvent("X", 2, "h2", 0), MkEvent("Y", 3, "h3", 0)}

BatchTables ==
    {[events |-> BigEvents(n), ticks |-> BigTicks(n)] : n \in BigSizes}
    \cup {[events |-> SmallEvents, ticks |-> T] : T \in SUBSET SmallTickPool}

InitBatch ==
    /\ \E in \in BatchTables :
           /\ ai_news_events = in.events
           /\ market_ticks = in.ticks
    /\ news_impact_analysis = {}
    /\ NoRun
    /\ inserted_count = 0
    /\ last_op = "init"
    /\ repeated = FALSE
    /\ NoSteps
    /\ NoFetch

NextBatch ==
    \/ FullLoad
    \/ FullInsert
    \/ RetryLoad
    \/ RetryFill
    \/ RetryInsert
    \/ WriteFails

SpecBatch == InitBatch /\ [][NextBatch]_vars

(***************************************************************************)
(* Vocabulary of the properties: what a run loaded and what it produced,   *)
(* stated on sets of rows and independent of the steps of the code.        *)
(***************************************************************************)
RunDone == last_op \in {"build", "retry"}

EventsLoaded == {news_df[i] : i \in 1..Len(news_df)}
TicksLoaded == {market_df[i] : i \in 1..Len(market_df)}
TicksOf(e) == {t \in TicksLoaded : t.ticker = e.ticker}
RecordsOf(e) == {r \in {results[i] : i \in 1..Len(results)} :
                   r.event_id = e.event_id}

\* the event got no record, is part of the skipped count, and nothing was
\* persisted for it
CountedAsSkipped(e) ==
    /\ RecordsOf(e) = {}
    /\ skipped = Cardinality({i \in 1..Len(news_df) : RecordsOf(news_df[i]) = {}})
    /\ ~\E r \in news_impact_analysis : r.event_id = e.event_id

PreTicks(e) == {t \in TicksOf(e) : t.time < e.published_at}
PostTicks(e) == {t \in TicksOf(e) : t.time >= e.published_at}
Latest(S) == CHOOSE t \in S : \A u \in S : u.time <= t.time
Earliest(S) == CHOOSE t \in S : \A u \in S : t.time <= u.time

\* the impact window of the event: anchored at the first tick at or after
\* publication, both ends inclusive
Window(e) ==
    LET start == Earliest(PostTicks(e)).time
    IN  {t \in TicksOf(e) : start <= t.time /\ t.time <= start + 30}

\* the total volume of a set of ticks, the set parted by time where it can be
RECURSIVE VolumeOf(_)
VolumeOf(S) ==
    IF S = {} THEN 0
    ELSE LET times == {t.time : t \in S}
         IN  IF Cardinality(times) > 1
             THEN LET k == PartingKey(times)
                  IN  VolumeOf({t \in S : t.time <= k})
                      + VolumeOf({t \in S : t.time > k})
             ELSE LET t == CHOOSE x \in S : TRUE
                  IN  t.volume + VolumeOf(S \ {t})

\* the fraction q stands for the number a / b
IsQuotient(q, a, b) == q.d > 0 /\ b # 0 /\ q.n * b = a * q.d

(***************************************************************************)
(* C1: price_at_news and volume_at_news are the close and the volume of    *)
(* the last tick strictly before published_at; an event that precedes all  *)
(* ticks of its ticker gets no record and is counted as skipped.           *)
(***************************************************************************)
C1_PreEventTick ==
    RunDone =>
        \A e \in EventsLoaded :
            TicksOf(e) # {} =>
                /\ PreTicks(e) = {} => CountedAsSkipped(e)
                /\ \A r \in RecordsOf(e) :
                       /\ PreTicks(e) # {}
                       /\ r.price_at_news = Latest(PreTicks(e)).close
                       /\ r.volume_at_news = Latest(PreTicks(e)).volume

\* an event before the first tick of its ticker, skipped
C1_Witness ==
    /\ RunDone
    /\ \E e \in EventsLoaded :
           /\ TicksOf(e) # {}
           /\ PreTicks(e) = {}
           /\ PostTicks(e) # {}
           /\ skipped >= 1
           /\ RecordsOf(e) = {}

(***************************************************************************)
(* C2: the reaction start is the first tick at or after published_at, also *)
(* when the event is published exactly at a tick's time, and that tick is  *)
(* not the pre-event tick; without such a tick there is no record and the  *)
(* event is counted as skipped.                                            *)
(***************************************************************************)
C2_ReactionStart ==
    RunDone =>
        \A e \in EventsLoaded :
            TicksOf(e) # {} =>
                /\ PostTicks(e) = {} => CountedAsSkipped(e)
                /\ \A r \in RecordsOf(e) :
                       /\ PostTicks(e) # {}
                       /\ MarketAfter(market_by_ticker(market_df, e.ticker),
                                      e.published_at)[1]
                              = Earliest(PostTicks(e))
                       /\ r.volume_30min_total = VolumeOf(Window(e))
                       /\ \E t \in TicksOf(e) :
                              /\ t.time < Earliest(PostTicks(e)).time
                              /\ t.close = r.price_at_news
                              /\ t.volume = r.volume_at_news

\* a record for an event published exactly at the time of a tick
C2_Witness ==
    /\ RunDone
    /\ \E e \in EventsLoaded :
           /\ RecordsOf(e) # {}
           /\ \E t \in TicksOf(e) : t.time = e.published_at
           /\ \E t \in TicksOf(e) : t.time > e.published_at

(***************************************************************************)
(* C3: the window of a record is the set of ticks from the reaction start  *)
(* to 30 minutes after it, both ends included, and the record holds the    *)
(* last close, the volume sum, the highest high and the lowest low of it.  *)
(***************************************************************************)
C3_Window ==
    RunDone =>
        \A e \in EventsLoaded :
            \A r \in RecordsOf(e) :
                /\ PostTicks(e) # {}
                /\ r.price_30min_after = Latest(Window(e)).close
                /\ r.volume_30min_total = VolumeOf(Window(e))
                /\ r.high_30min \in {t.high : t \in Window(e)}
                /\ \A t \in Window(e) : t.high <= r.high_30min
                /\ r.low_30min \in {t.low : t \in Window(e)}
                /\ \A t \in Window(e) : r.low_30min <= t.low

\* a window whose last tick lies exactly 30 minutes after the reaction start
\* and more than 30 minutes after the publication
C3_Witness ==
    /\ RunDone
    /\ \E e \in EventsLoaded :
           /\ RecordsOf(e) # {}
           /\ \E t \in Window(e) :
                  /\ t.time = Earliest(PostTicks(e)).time + 30
                  /\ t.time > e.published_at + 30
                  /\ t.volume > 0

(***************************************************************************)
(* C4: price_impact_pct = (price_30min_after - price_at_news) /            *)
(* price_at_news * 100 on the pre-event close and the last window close;   *)
(* 100 and 103 give 3; the divisor is never zero.                          *)
(***************************************************************************)
C4_PriceImpact ==
    RunDone =>
        \A e \in EventsLoaded :
            \A r \in RecordsOf(e) :
                /\ r.price_at_news = Latest(PreTicks(e)).close
                /\ r.price_30min_after = Latest(Window(e)).close
                /\ r.price_at_news > 0
                /\ IsQuotient(r.price_impact_pct,
                              (r.price_30min_after - r.price_at_news) * 100,
                              r.price_at_news)
                /\ (r.price_at_news = 100 /\ r.price_30min_after = 103)
                       => r.price_impact_pct = [n |-> 3, d |-> 1]

C4_Witness ==
    /\ RunDone
    /\ \E e \in EventsLoaded :
           \E r \in RecordsOf(e) :
               r.price_at_news = 100 /\ r.price_30min_after = 103

Nearest120(e) ==
    {t \in PreTicks(e) :
        Cardinality({u \in PreTicks(e) : u.time > t.time}) < 120}

C6_Baseline ==
    RunDone =>
        \A e \in EventsLoaded :
            \A r \in RecordsOf(e) :
                /\ Latest(PreTicks(e)) \in Nearest120(e)
                /\ IsQuotient(r.volume_baseline_avg,
                              VolumeOf(Nearest120(e)),
                              Cardinality(Nearest120(e)))

\* more than 120 earlier ticks, across an overnight gap, the oldest of them
\* with its own volume
C6_Witness ==
    /\ RunDone
    /\ \E e \in EventsLoaded :
           /\ RecordsOf(e) # {}
           /\ Cardinality(PreTicks(e)) > 120
           /\ \E t \in Nearest120(e) : e.published_at - t.time > 1000
           /\ Earliest(PreTicks(e)).volume # Latest(PreTicks(e)).volume

C8_Idempotent ==
    [][(\/ last_op = "build" /\ last_op' = "build"
        \/ last_op = "retry" /\ last_op' = "retry")
       => news_impact_analysis' = news_impact_analysis]_vars

\* a second full run in a row that computed records and skipped an event
C8_Witness ==
    /\ repeated
    /\ last_op = "build"
    /\ results # <<>>
    /\ skipped > 0
    /\ \E r \in news_impact_analysis :
           \E i \in 1..Len(results) :
               /\ results[i].event_id = r.event_id
               /\ results[i].price_at_news # r.price_at_news

(***************************************************************************)
(* C9: the impact table holds at most one record per event_id, and every   *)
(* record belongs to a stored news event.                                  *)
(***************************************************************************)
C9_OneRecordPerEvent ==
    /\ \A r1, r2 \in news_impact_analysis :
           r1.event_id = r2.event_id => r1 = r2
    /\ \A r \in news_impact_analysis :
           \E e \in ai_news_events : e.event_id = r.event_id

\* a full run met the stored record of an event it computed anew
C9_Witness ==
    /\ last_op = "build"
    /\ \E r \in news_impact_analysis :
           \E i \in 1..Len(results) :
               /\ results[i].event_id = r.event_id
               /\ results[i].price_at_news # r.price_at_news
               /\ results[i].price_impact_pct = r.price_impact_pct

(***************************************************************************)
(* C10: every persisted record is consistent with itself: its two          *)
(* percentages follow from its own stored prices, and its spike ratio,     *)
(* unless it holds no number, from its own stored volume total and         *)
(* baseline average.                                                       *)
(***************************************************************************)
RecordConsistent(r) ==
    /\ IsQuotient(r.price_impact_pct,
                  (r.price_30min_after - r.price_at_news) * 100,
                  r.price_at_news)
    /\ IsQuotient(r.volatility_impact_pct,
                  (r.high_30min - r.low_30min) * 100,
                  r.price_at_news)
    /\ r.volume_spike_ratio \notin {NULL, NaN} =>
           IsQuotient(r.volume_spike_ratio,
                      r.volume_30min_total * r.volume_baseline_avg.d,
                      r.volume_baseline_avg.n * 30)

C10_RecordsConsistent ==
    \A r \in news_impact_analysis : RecordConsistent(r)

(***************************************************************************)
(* C17: when a ticker has no market ticks at all, every event of that      *)
(* ticker is skipped and counted and gets no record, and the run goes on:  *)
(* the events of the other tickers that have a tick before and a tick at   *)
(* or after their publication still get their records.                     *)
(***************************************************************************)
C17_TickerWithoutTicks ==
    RunDone =>
        /\ \A e \in EventsLoaded : TicksOf(e) = {} => CountedAsSkipped(e)
        /\ (\E e \in EventsLoaded : TicksOf(e) = {}) =>
               \A o \in EventsLoaded :
                   PreTicks(o) # {} /\ PostTicks(o) # {} => RecordsOf(o) # {}

\* the loop met an event of a ticker without ticks, counted it, and computed
\* the record of the event of another ticker that came after it
C17_Witness ==
    /\ RunDone
    /\ \E i, j \in 1..Len(news_df) :
           /\ i < j
           /\ TicksOf(news_df[i]) = {}
           /\ RecordsOf(news_df[i]) = {}
           /\ news_df[j].ticker # news_df[i].ticker
           /\ RecordsOf(news_df[j]) # {}
    /\ skipped = 1

(***************************************************************************)
(* C18: ticker isolation.  The outcome of a run for an event, skipped or   *)
(* computed and every field of the record, is the outcome of the same loop *)
(* on the same events when the ticks of the other tickers are removed,     *)
(* changed, or joined by one more tick of another ticker.                  *)
(***************************************************************************)
\* the records the loop of the mode that ran appends on the given frames
LoopResults(news, ticks) ==
    IF last_op = "retry" THEN RetryProcess(news, ticks, {}).computed
    ELSE build_impact_analysis(news, ticks).results

OutcomeOn(e, news, ticks) ==
    LET out == LoopResults(news, ticks)
    IN  {out[i] : i \in {j \in 1..Len(out) : out[j].event_id = e.event_id}}

\* market_df with the ticks of the tickers other than the event's removed,
\* given another bar, and joined by a later tick of one more ticker
WithoutOthers(e) == SelectSeq(market_df, LAMBDA t : t.ticker = e.ticker)
OthersChanged(e) ==
    [i \in 1..Len(market_df) |->
        IF market_df[i].ticker = e.ticker THEN market_df[i]
        ELSE [market_df[i] EXCEPT !.open = 50, !.high = 60, !.low = 40,
                                  !.close = 50, !.volume = 7]]
OthersJoined(e) ==
    Append(market_df,
           MkTick("Z", 34, [open |-> 50, high |-> 60, low |-> 40,
                            close |-> 50, volume |-> 7]))

Reverse(df) == [i \in 1..Len(df) |-> df[Len(df) + 1 - i]]
Rotate(df) == IF df = <<>> THEN df ELSE Append(Tail(df), Head(df))

C19_Determinism ==
    RunDone =>
        \A e \in EventsLoaded :
            \A ticks \in {WithoutOthers(e), Reverse(WithoutOthers(e)),
                          Rotate(WithoutOthers(e)), Reverse(market_df)} :
                OutcomeOn(e, <<e>>, ticks) = RecordsOf(e)

\* a run that came after the run that stored the event's record, loaded two
\* events and at least two ticks of the event's ticker, and computed the
\* event's record from another pre-event tick than the stored one
C19_Witness ==
    /\ RunDone
    /\ Len(news_df) >= 2
    /\ \E e \in EventsLoaded :
           /\ Cardinality(TicksOf(e)) >= 2
           /\ \E r \in RecordsOf(e) :
                  \E s \in news_impact_analysis :
                      /\ s.event_id = e.event_id
                      /\ s.price_at_news # r.price_at_news

(***************************************************************************)
(* C20: within a run the events are taken in ascending published_at order, *)
(* hence each ticker's events are: the loaded events, the records of the   *)
(* full run, and every batch of the incremental run are in non-decreasing  *)
(* published_at order, and while the incremental run is at row idx no      *)
(* record of a later row is in the batch or in the table.                  *)
(***************************************************************************)
NonDecreasing(rows) ==
    \A i \in 1..(Len(rows) - 1) : rows[i].published_at <= rows[i + 1].published_at

C20_AscendingPublishedAt ==
    /\ NonDecreasing(news_df)
    /\ NonDecreasing(impact_df)
    /\ NonDecreasing(batch_records)
    /\ pc \in {"retry_loop", "retry_insert"} =>
           LET later == {news_df[i].event_id : i \in (idx + 1)..Len(news_df)}
           IN  /\ \A i \in 1..Len(batch_records) :
                      batch_records[i].event_id \notin later
               /\ \A r \in news_impact_analysis : r.event_id \notin later

\* the incremental run is about to write a batch after a first one, and the
\* batch holds two records of one ticker with different published_at
C20_Witness ==
    /\ pc = "retry_insert"
    /\ total_inserted >= batch_size
    /\ \E i, j \in {1, Len(batch_records)} :
           /\ batch_records[i].ticker = batch_records[j].ticker
           /\ batch_records[i].published_at < batch_records[j].published_at

(***************************************************************************)
(* C16: at the end of a run the report gives the count of computed events  *)
(* and, separately for each skip reason (no history, no future data, empty *)
(* window, ticker without ticks), the count of the events skipped for it;  *)
(* every loaded event is counted as computed or under one of the reasons.  *)
(***************************************************************************)
SkipReasons == {"no history", "no future data", "empty window",
                "ticker without ticks"}

\* the reason for which the loop body leaves the event without a record
ReasonOf(e) ==
    IF TicksOf(e) = {} THEN "ticker without ticks"
    ELSE IF PostTicks(e) = {} THEN "no future data"
    ELSE IF PreTicks(e) = {} THEN "no history"
    ELSE "empty window"

SkippedFor(reason) ==
    Cardinality({i \in 1..Len(news_df) :
                    RecordsOf(news_df[i]) = {} /\ ReasonOf(news_df[i]) = reason})

\* the two counts the scripts print when the loop is over: the computed
\* events, and the skipped events under "(insufficient market data)", which
\* stands for every reason at once
Report ==
    {[reasons |-> {}, count |-> Len(results)],
     [reasons |-> SkipReasons, count |-> skipped]}

C16_CountsByReason ==
    RunDone =>
        /\ \E line \in Report : line.reasons = {} /\ line.count = Len(results)
        /\ \A reason \in SkipReasons :
               \E line \in Report :
                   line.reasons = {reason} /\ line.count = SkippedFor(reason)
        /\ Len(news_df) = Len(results) + skipped

(***************************************************************************)
(* C15: the incremental mode differs from the full recompute by its input  *)
(* filter only.  An incremental run processes exactly the events that have *)
(* no record when it starts, it neither changes nor deletes a record that  *)
(* existed when it started, and from an empty impact table it leaves the   *)
(* record set a full recompute leaves on the same events and ticks.        *)
(***************************************************************************)
\* the impact tables a full recompute leaves when it starts from no record
FullRecompute(events, ticks) ==
    {insert_impact_analysis({}, DataFrameOf(build_impact_analysis(n, m).results)) :
        n \in load_news_events(events), m \in load_market_ticks(ticks)}

C15_IncrementalIsFilteredFull ==
    [][last_op' = "retry" =>
          /\ {news_df'[i] : i \in 1..Len(news_df')} =
                 {e \in ai_news_events :
                     ~\E r \in news_impact_analysis : r.event_id = e.event_id}
          /\ news_impact_analysis \subseteq news_impact_analysis'
          /\ news_impact_analysis = {} =>
                 news_impact_analysis' \in FullRecompute(ai_news_events,
                                                        market_ticks)]_vars

(***************************************************************************)
(* C14: in both modes the records of a run are persisted in chunks: no     *)
(* commit writes more than about batch_size records, read here as fewer    *)
(* than twice batch_size, whatever the number of computed records.         *)
(***************************************************************************)
\* the rows a commit has put into the impact table or changed in it
Written(before, after) == after \ before

C14_ChunkedCommits ==
    [][Cardinality(Written(news_impact_analysis, news_impact_analysis'))
           < 2 * batch_size]_vars

(***************************************************************************)
(* C13: a failed write does not corrupt the persisted state.  While a run  *)
(* writes in batches, its persisted records are those of whole batches and *)
(* of a prefix of the rows in processing order; a write that fails leaves  *)
(* the impact table as the batches committed before it left it; and the    *)
(* incremental run that completes after a failed run leaves the impact     *)
(* table an uninterrupted run of the failed script would have left, on the *)
(* same events and ticks and from the table the failed run found.          *)
(***************************************************************************)
\* the records the incremental loop computes for a set of events
RetryRecords(events, ticks) ==
    UNION {LET ticker_market == market_by_ticker(ticks, e.ticker)
               impact == IF ticker_market = <<>> THEN <<>>
                         ELSE retry_calculate_impact_for_event(e, ticker_market)
           IN  IF impact = <<>> THEN {} ELSE {impact[1]} : e \in events}

\* the impact tables an uninterrupted run of the script leaves from table
UninterruptedRun(script, table) ==
    IF script = "retry"
    THEN {table \cup
          RetryRecords({e \in ai_news_events :
                           ~\E r \in table : r.event_id = e.event_id}, m) :
             m \in load_market_ticks(market_ticks)}
    ELSE {LET out == build_impact_analysis(n, m)
          IN  IF out.results = <<>> THEN table
              ELSE insert_impact_analysis(table, DataFrameOf(out.results)) :
             n \in load_news_events(ai_news_events),
             m \in load_market_ticks(market_ticks)}

\* the rows of news_df whose records the running incremental script has
\* committed are whole batches and the computed rows of a prefix of news_df
WholeBatchesOfAPrefix ==
    LET committed == {r.event_id : r \in news_impact_analysis \ start_table}
        at == {i \in 1..Len(news_df) : news_df[i].event_id \in committed}
        last == IF at = {} THEN 0 ELSE 0 - SetMin({0 - i : i \in at})
    IN  /\ Cardinality(committed) = total_inserted
        /\ total_inserted % batch_size = 0
        /\ Cardinality(at) = total_inserted
        /\ \A j \in 1..last :
               \/ j \in at
               \/ \E reason \in {"ticker_market", "market_after",
                                 "market_before", "window_data"} :
                      <<news_df[j].event_id, reason>> \in skip_log

C13_FailedWriteRecoverable ==
    [][/\ pc \in {"retry_loop", "retry_insert"} => WholeBatchesOfAPrefix
       /\ (pc \in {"build_insert", "retry_insert"} /\ last_op' = "failed") =>
              news_impact_analysis' = news_impact_analysis
       /\ (failed_run # NoFailure /\ last_op \in {"main", "failed"}
           /\ last_op' = "retry") =>
              news_impact_analysis' \in
                  UninterruptedRun(failed_run.script, failed_run.table)]_vars

(***************************************************************************)
(* Specification SpecConc: one script in steps while other processes act   *)
(* on the same database between its steps: the ingestion adds ticks, and a *)
(* second process runs the full recompute.                                 *)
(***************************************************************************)
ConcTickPool ==
    {MkTick("X", 1, [open |-> 100, high |-> 100, low |-> 100, close |-> 100,
                     volume |-> 1000]),
     MkTick("X", 2, [open |-> 103, high |-> 104, low |-> 101, close |-> 102,
                     volume |-> 0]),
     MkTick("X", 4, [open |-> 100, high |-> 106, low |-> 99, close |-> 103,
                     volume |-> 2000]),
     MkTick("X", 5, [open |-> 103, high |-> 104, low |-> 101, close |-> 102,
                     volume |-> 1000])}
ConcEvents == {MkEvent("X", 2, "h2", 0), MkEvent("X", 3, "h1", 1)}

InitConc ==
    /\ ai_news_events = ConcEvents
    /\ market_ticks \in SUBSET {t \in ConcTickPool : t.time <= 2}
    /\ news_impact_analysis = {}
    /\ NoRun
    /\ inserted_count = 0
    /\ last_op = "init"
    /\ repeated = FALSE
    /\ NoSteps
    /\ NoFetch

\* TimescaleRepository.upsert_market_ticks([tick]) in the ingestion process,
\* which holds none of the script's variables
TicksArrive ==
    \E tick \in ConcTickPool :
        LET out == upsert_market_ticks(market_ticks, <<tick>>)
        IN  /\ out.inserted_count = 1
            /\ market_ticks' = out.table
            /\ inserted_count' = out.inserted_count
            /\ UNCHANGED <<ai_news_events, news_impact_analysis, news_df,
                           market_df, results, skipped, total_inserted,
                           last_op, repeated, stepvars, fetchvars>>

\* build_impact_analysis.main from its loads to its commit in a second
\* process, while the script of this process is between two of its steps
OtherFullRun ==
    /\ pc # "idle"
    /\ \E n \in load_news_events(ai_news_events),
          m \in load_market_ticks(market_ticks) :
           LET out == build_impact_analysis(n, m)
           IN  /\ out.results # <<>>
               /\ news_impact_analysis' =
                      insert_impact_analysis(news_impact_analysis,
                                             DataFrameOf(out.results))
    /\ UNCHANGED <<market_ticks, ai_news_events, news_df, market_df, results,
                   skipped, total_inserted, inserted_count, last_op, repeated,
                   stepvars, fetchvars>>

NextConc ==
    \/ FullLoad
    \/ FullInsert
    \/ RetryLoad
    \/ RetryFill
    \/ RetryInsert
    \/ WriteFails
    \/ TicksArrive
    \/ OtherFullRun

SpecConc == InitConc /\ [][NextConc]_vars

(***************************************************************************)
(* C11: in both modes, a write of a computed record whose event_id has a   *)
(* stored record replaces price_impact_pct, volume_spike_ratio,            *)
(* volatility_impact_pct, price_30min_after, volume_30min_total,           *)
(* high_30min and low_30min of the stored row by the computed values and   *)
(* leaves the other fields of the row as they are.                         *)
(***************************************************************************)
SevenOverwritten(stored, rec) ==
    [stored EXCEPT !.price_impact_pct = rec.price_impact_pct,
                   !.volume_spike_ratio = rec.volume_spike_ratio,
                   !.volatility_impact_pct = rec.volatility_impact_pct,
                   !.price_30min_after = rec.price_30min_after,
                   !.volume_30min_total = rec.volume_30min_total,
                   !.high_30min = rec.high_30min,
                   !.low_30min = rec.low_30min]

\* the records the step of the script writes: the frame of the full
\* recompute, the batch of the incremental run, or nothing
RecordsWritten ==
    IF pc = "build_insert" /\ last_op' = "build" THEN impact_df
    ELSE IF pc = "retry_insert" /\ total_inserted' # total_inserted
    THEN batch_records
    ELSE <<>>

C11_ConflictOverwrites ==
    [][\A i \in 1..Len(RecordsWritten) :
           \A stored \in news_impact_analysis :
               stored.event_id = RecordsWritten[i].event_id =>
                   SevenOverwritten(stored, RecordsWritten[i])
                       \in news_impact_analysis']_vars

(***************************************************************************)
(* C12: monotonic recoverability.  An event that a run skipped because no  *)
(* tick at or after its published_at existed has a record when an          *)
(* incremental run that loaded such a tick has completed, and the writes   *)
(* of an incremental run leave every record that existed when the run      *)
(* started as it is.                                                       *)
(***************************************************************************)
C12_MonotonicRecoverability ==
    [][/\ (last_op = "main" /\ last_op' = "retry") =>
              \A e \in ai_news_events :
                  (/\ <<e.event_id, "market_after">> \in skip_log
                   /\ \E i \in 1..Len(market_df) :
                          /\ market_df[i].ticker = e.ticker
                          /\ market_df[i].time >= e.published_at)
                  => \E r \in news_impact_analysis' : r.event_id = e.event_id
       /\ (pc = "retry_insert" /\ total_inserted' # total_inserted) =>
              \A r \in news_impact_analysis :
                  (\E s \in start_table : s.event_id = r.event_id)
                  => r \in news_impact_analysis']_vars

\* an incremental run has completed and written one record; an event that
\* was skipped for want of a tick at or after its publication has a record,
\* and so has the other event
C12_Witness ==
    /\ last_op = "retry"
    /\ total_inserted = 1
    /\ skipped = 0
    /\ Cardinality(news_impact_analysis) = 2
    /\ \E r \in news_impact_analysis :
           <<r.event_id, "market_after">> \in skip_log

(***************************************************************************)
(* C21: after any sequence of upsert_market_ticks calls the stored ticks   *)
(* hold at most one row per (ticker, time); a call on them, whatever its   *)
(* list, leaves every stored row as it is, stores for a key that is new    *)
(* the first tick of its list with that key, and returns the number of     *)
(* rows it inserted.                                                       *)
(***************************************************************************)
OneRowPerKey(table) ==
    \A r1, r2 \in table :
        r1.ticker = r2.ticker /\ r1.time = r2.time => r1 = r2

\* what the call upsert_market_ticks(ticks) on the stored ticks has to give
FirstStoredWins(ticks) ==
    LET out == upsert_market_ticks(market_ticks, ticks)
        SameKey(a, b) == a.ticker = b.ticker /\ a.time = b.time
    IN  /\ market_ticks \subseteq out.table
        /\ OneRowPerKey(out.table)
        /\ out.inserted_count =
               Cardinality(out.table) - Cardinality(market_ticks)
        /\ \A k \in 1..Len(ticks) :
               \/ \E r \in market_ticks : SameKey(r, ticks[k])
               \/ \E j \in 1..(k - 1) : SameKey(ticks[j], ticks[k])
               \/ ticks[k] \in out.table
        /\ \A r \in out.table \ market_ticks :
               \E k \in 1..Len(ticks) : ticks[k] = r

C21_TicksMergedByKey ==
    /\ OneRowPerKey(market_ticks)
    /\ \A ticks \in TickLists : FirstStoredWins(ticks)
    /\ last_op = "upsert_market_ticks" =>
           inserted_count <= Cardinality(market_ticks)

\* a call that inserted nothing into a table of two stored ticks of one
\* ticker: its list held stored keys only
C21_Witness ==
    /\ last_op = "upsert_market_ticks"
    /\ inserted_count = 0
    /\ \E r1, r2 \in market_ticks : r1.ticker = r2.ticker /\ r1.time < r2.time

(***************************************************************************)
(* C22: a stored news event is immutable.  Every step leaves every stored  *)
(* event as it is, with one row per (ticker, published_at, headline); an   *)
(* upsert_news_events call returns the number of rows it added, so an      *)
(* event whose key is stored is not counted; and a run of either script    *)
(* leaves the news events as they are.                                     *)
(***************************************************************************)
OneRowPerHeadline(table) ==
    \A r1, r2 \in table :
        (/\ r1.ticker = r2.ticker
         /\ r1.published_at = r2.published_at
         /\ r1.headline = r2.headline) => r1 = r2

C22_NewsEventsImmutable ==
    [][/\ ai_news_events \subseteq ai_news_events'
       /\ OneRowPerHeadline(ai_news_events')
       /\ last_op' = "upsert_news_events" =>
              inserted_count' =
                  Cardinality(ai_news_events') - Cardinality(ai_news_events)
       /\ last_op' \in {"build", "retry"} =>
              ai_news_events' = ai_news_events]_vars

\* a call that inserted nothing although events are stored, after a run
\* has written impact records
C22_Witness ==
    /\ last_op = "upsert_news_events"
    /\ inserted_count = 0
    /\ Cardinality(ai_news_events) >= 2
    /\ news_impact_analysis # {}

(***************************************************************************)
(* C23: an event whose ticker has a tick ends a run in exactly one of      *)
(* three outcomes, decided by the tick times alone: it is computed, with   *)
(* one record, iff a tick lies strictly before published_at and a tick     *)
(* lies at or after it; otherwise it is skipped, at the history test iff   *)
(* no tick lies strictly before and at the future test iff no tick lies at *)
(* or after.  The two skip conditions never hold together, so the          *)
(* statement that gives up is the same when history is tested first.       *)
(***************************************************************************)
\* the test that gives up on the event when history is tested first
HistoryFirst(e) ==
    IF PreTicks(e) = {} THEN "market_before"
    ELSE IF PostTicks(e) = {} THEN "market_after"
    ELSE "window_data"

C23_ThreeOutcomes ==
    RunDone =>
        \A e \in EventsLoaded :
            TicksOf(e) # {} =>
                /\ ~(PreTicks(e) = {} /\ PostTicks(e) = {})
                /\ Cardinality(RecordsOf(e)) <= 1
                /\ RecordsOf(e) # {} <=> (PreTicks(e) # {} /\ PostTicks(e) # {})
                /\ RecordsOf(e) = {} =>
                       LET gave_up ==
                               SkippedAt(e, market_by_ticker(market_df, e.ticker))
                       IN  /\ gave_up = HistoryFirst(e)
                           /\ gave_up = "market_before" <=> PreTicks(e) = {}
                           /\ gave_up = "market_after" <=> PostTicks(e) = {}

\* a run that computed one event and skipped another, of a ticker whose
\* ticks all lie before the event's publication
C23_Witness ==
    /\ RunDone
    /\ \E e, o \in EventsLoaded :
           /\ RecordsOf(e) # {}
           /\ TicksOf(o) # {}
           /\ PostTicks(o) = {}
           /\ RecordsOf(o) = {}

(***************************************************************************)
(* C24: whenever a reaction-start tick exists, the window frame the code   *)
(* selects holds that tick, so it is never empty, and no event of a run is *)
(* skipped at the empty-window test.                                       *)
(***************************************************************************)
C24_WindowNeverEmpty ==
    RunDone =>
        \A e \in EventsLoaded :
            LET ticker_market == market_by_ticker(market_df, e.ticker)
                market_after == MarketAfter(ticker_market, e.published_at)
            IN  /\ market_after # <<>> =>
                       LET start == market_after[1].time
                           window_data ==
                               WindowData(ticker_market, start, WindowEnd(start))
                       IN  /\ window_data # <<>>
                           /\ window_data[1] = market_after[1]
                /\ RecordsOf(e) = {} =>
                       SkippedAt(e, ticker_market) # "window_data"

\* a computed event whose reaction-start tick is the last tick of its
\* ticker: the window holds that tick alone
C24_Witness ==
    /\ RunDone
    /\ \E e \in EventsLoaded :
           /\ RecordsOf(e) # {}
           /\ Window(e) = {Latest(TicksOf(e))}
           /\ Cardinality(TicksOf(e)) >= 3

(***************************************************************************)
(* Specification SpecBatchFair: SpecBatch with a script that, once         *)
(* started, goes on to its next statement.  Every step of FullInsert,      *)
(* RetryFill, RetryInsert and WriteFails changes pc, and with a script     *)
(* under way NextBatch has no other step, so the fairness condition is     *)
(* stated on the change of pc.                                             *)
(***************************************************************************)
ScriptStep ==
    \/ pc = "build_insert" /\ pc' = "idle"
    \/ pc = "retry_loop" /\ pc' \in {"retry_insert", "idle"}
    \/ pc = "retry_insert" /\ pc' \in {"retry_loop", "idle"}

SpecBatchFair == InitBatch /\ [][NextBatch]_vars /\ WF_pc(ScriptStep)

(***************************************************************************)
(* C25: every run terminates after visiting each loaded event exactly      *)
(* once.  The loop of the incremental run moves forward through news_df    *)
(* and has counted every row it visited once, as a record or as skipped;   *)
(* when a run ends, its records and its skipped counter add up to the      *)
(* number of events it loaded, and the skipped counter is the number of    *)
(* loaded events without a record of the run; and a run that has started   *)
(* comes to its end.                                                       *)
(***************************************************************************)
WithoutRecord(table) ==
    LET ids == {r.event_id : r \in table}
    IN  {e \in ai_news_events : e.event_id \notin ids}

CountsAddUp ==
    /\ pc \in {"retry_loop", "retry_insert"} =>
           /\ idx <= Len(news_df)
           /\ skipped + total_inserted + Len(batch_records) = idx
    \* the loop goes on: it visits further rows
    /\ (pc = "retry_loop" /\ pc' = "retry_insert") =>
           idx' > idx /\ idx' <= Len(news_df)
    \* the incremental run ends
    /\ (pc \in {"retry_loop", "retry_insert"} /\ last_op' = "retry") =>
           /\ skipped' + total_inserted' = Len(news_df)
           /\ LET ids == {r.event_id : r \in news_impact_analysis'}
              IN  skipped' = Cardinality({i \in 1..Len(news_df) :
                                 news_df[i].event_id \notin ids})
    /\ (pc = "idle" /\ pc' = "idle" /\ last_op' = "retry") =>
           /\ WithoutRecord(news_impact_analysis) = {}
           /\ skipped' = 0 /\ total_inserted' = 0
    /\ (pc = "idle" /\ pc' = "retry_loop") =>
           Len(news_df') = Cardinality(WithoutRecord(news_impact_analysis))
    \* build_impact_analysis returns
    /\ (pc = "idle" /\ pc' = "build_insert") =>
           /\ Len(news_df') = Cardinality(ai_news_events)
           /\ skipped' + Len(impact_df') = Len(news_df')
           /\ Cardinality({impact_df'[i].event_id : i \in 1..Len(impact_df')})
                  = Len(impact_df')
    /\ (pc = "idle" /\ pc' = "idle" /\ last_op' = "build") =>
           skipped' = Cardinality(ai_news_events)

C25_EveryEventVisitedOnce ==
    [][CountsAddUp]_vars /\ (pc # "idle" ~> pc = "idle")

\* an incremental run has ended after two batches and a last one: it wrote
\* records and skipped events
C25_Witness ==
    /\ pc = "idle"
    /\ last_op = "retry"
    /\ total_inserted > MaxBatches * batch_size
    /\ skipped >= 2

(***************************************************************************)
(* C26: in the incremental run the pending batch never holds more than     *)
(* batch_size records; it is written at the row that brings it to          *)
(* batch_size records, and what is left of it is written after the last    *)
(* row; every write adds its records to the table as new rows, and a run   *)
(* that ends without error has written every record it computed once, and  *)
(* total_inserted is their number.                                         *)
(***************************************************************************)
BatchInBounds ==
    /\ Len(batch_records) <= batch_size
    /\ pc = "retry_loop" => batch_records = <<>>
    /\ pc = "retry_insert" =>
           /\ batch_records # <<>>
           /\ Len(batch_records) < batch_size => idx = Len(news_df)
           /\ Len(batch_records) = batch_size =>
                  batch_records[batch_size].event_id = news_df[idx].event_id

BatchWrittenOnce ==
    /\ (pc = "retry_insert" /\ last_op' # "failed") =>
           LET ids == {batch_records[i].event_id : i \in 1..Len(batch_records)}
               stored == {r.event_id : r \in news_impact_analysis}
           IN  /\ Cardinality(ids) = Len(batch_records)
               /\ ids \cap stored = {}
               /\ {r.event_id : r \in news_impact_analysis'} = stored \cup ids
               /\ Cardinality(news_impact_analysis') =
                      Cardinality(news_impact_analysis) + Len(batch_records)
               /\ total_inserted' = total_inserted + Len(batch_records)
    /\ (pc \in {"retry_loop", "retry_insert"} /\ last_op' = "retry") =>
           LET stored == {r.event_id : r \in news_impact_analysis'}
               computed == {i \in 1..Len(news_df) :
                               news_df[i].event_id \in stored}
           IN  /\ total_inserted' = Cardinality(computed)
               /\ Cardinality(news_impact_analysis') =
                      Cardinality(start_table) + total_inserted'
               /\ start_table \subseteq news_impact_analysis'

C26_BatchesOfAThousand == []BatchInBounds /\ [][BatchWrittenOnce]_vars

\* two full batches are written and the one record left is about to be
C26_Witness ==
    /\ pc = "retry_insert"
    /\ Len(batch_records) = 1
    /\ total_inserted = MaxBatches * batch_size
    /\ idx = Len(news_df)

(***************************************************************************)
(* C27: when every loaded tick satisfies the data model (prices above 0,   *)
(* volume at least 0, low <= min(open, close), high >= max(open, close)),  *)
(* every record has low_30min <= price_30min_after <= high_30min, a        *)
(* volatility_impact_pct of at least 0 and a volume_30min_total of at      *)
(* least 0.                                                                *)
(***************************************************************************)
SatisfiesDataModel(tick) ==
    /\ tick.open > 0 /\ tick.high > 0 /\ tick.low > 0 /\ tick.close > 0
    /\ tick.volume >= 0
    /\ tick.high >= tick.low
    /\ tick.high >= tick.open /\ tick.high >= tick.close
    /\ tick.low <= tick.open /\ tick.low <= tick.close

C27_RecordWithinExtremes ==
    (RunDone /\ \A t \in TicksLoaded : SatisfiesDataModel(t)) =>
        \A e \in EventsLoaded :
            \A r \in RecordsOf(e) :
                /\ r.low_30min <= r.price_30min_after
                /\ r.price_30min_after <= r.high_30min
                /\ r.volatility_impact_pct.d > 0
                /\ r.volatility_impact_pct.n >= 0
                /\ r.volume_30min_total >= 0

\* a window of several ticks whose last close lies strictly between the
\* extremes, which another tick of the window set
C27_Witness ==
    /\ RunDone
    /\ \A t \in TicksLoaded : SatisfiesDataModel(t)
    /\ \E e \in EventsLoaded :
           \E r \in RecordsOf(e) :
               /\ r.low_30min < r.price_30min_after
               /\ r.price_30min_after < r.high_30min
               /\ Latest(Window(e)).high < r.high_30min
               /\ r.low_30min < Latest(Window(e)).low
               /\ r.volume_30min_total > 0

(***************************************************************************)
(* The batch methods of the two clients, one iteration of their loops at a *)
(* time.  A tick or a news item is known by its date.                      *)
(***************************************************************************)
Dates == 0..MaxDate

Min(a, b) == IF a < b THEN a ELSE b

\* DatabentoClient.fetch_ohlcv_bars(ticker, first, last): the bars of the
\* range, or [] when the request raises
fetch_ohlcv_bars(first, last) ==
    {<<>>, [i \in 1..(last - first + 1) |-> [ticker |-> "X",
                                            date |-> first + i - 1]]}

\* min(current_date + timedelta(days=batch_days - 1), to_date)
BatchEnd_Unclipped(start, days, last) == start + (days - 1)
BatchEnd(start, days, last) == Min(start + (days - 1), last)

\* one iteration of the loop of fetch_ohlcv_bars_batch
OhlcvBatch ==
    /\ fetch_pc = "ohlcv_loop"
    /\ current_date <= to_date
    /\ LET batch_end == BatchEnd(current_date, batch_days, to_date)
       IN  \E batch_ticks \in fetch_ohlcv_bars(current_date, batch_end) :
               /\ all_ticks' = all_ticks \o batch_ticks
               /\ current_date' = batch_end + 1
               /\ fetches' = Append(fetches, [from_date |-> current_date,
                                              to_date |-> batch_end,
                                              out |-> batch_ticks])
    /\ UNCHANGED <<fetch_pc, from_date, to_date, batch_days, current_end_date,
                   iteration, all_events, remote_news, remote_skew>>
    /\ UNCHANGED scriptvars

\* the loop of fetch_ohlcv_bars_batch ends and all_ticks is returned
OhlcvReturn ==
    /\ fetch_pc = "ohlcv_loop"
    /\ ~(current_date <= to_date)
    /\ fetch_pc' = "ohlcv_returned"
    /\ UNCHANGED <<from_date, to_date, batch_days, current_date, all_ticks,
                   current_end_date, iteration, all_events, remote_news,
                   remote_skew, fetches>>
    /\ UNCHANGED scriptvars

\* the items of a set of dates, the latest first
RECURSIVE ItemsOf(_)
ItemsOf(dates) ==
    IF dates = {} THEN <<>>
    ELSE LET latest == CHOOSE d \in dates : \A o \in dates : o <= d
         IN  <<[ticker |-> "X", published_at |-> latest]>>
                 \o ItemsOf(dates \ {latest})

\* what the service answers to GET /company-news?from=first&to=last
RemoteItems(first, last) ==
    ItemsOf({d \in remote_news : first <= d /\ d <= last + remote_skew})

\* FinnhubClient.fetch_company_news(ticker, first, last): the list of events,
\* None after a RequestException, or another exception raised on the way
fetch_company_news(first, last) ==
    {[outcome |-> "list", events |-> RemoteItems(first, last)],
     [outcome |-> "None", events |-> <<>>],
     [outcome |-> "raised", events |-> <<>>]}

InTargetRange(event) ==
    from_date <= event.published_at /\ event.published_at <= to_date

OldestDate(events) ==
    SetMin({events[i].published_at : i \in 1..Len(events)})

\* the method leaves its loop and returns all_events
NewsBreak ==
    /\ fetch_pc' = "news_returned"
    /\ UNCHANGED current_end_date

\* one iteration of the loop of fetch_company_news_batch
NewsBatch ==
    /\ fetch_pc = "news_loop"
    /\ current_end_date >= from_date /\ iteration < max_iterations
    /\ iteration' = iteration + 1
    /\ \E batch_events \in fetch_company_news(from_date, current_end_date) :
           /\ fetches' = Append(fetches, [from_date |-> from_date,
                                          to_date |-> current_end_date,
                                          out |-> batch_events])
           /\ IF batch_events.outcome # "list" \/ batch_events.events = <<>>
              THEN NewsBreak /\ UNCHANGED all_events
              ELSE LET filtered_events ==
                           SelectSeq(batch_events.events, InTargetRange)
                   IN  IF filtered_events = <<>>
                       THEN NewsBreak /\ UNCHANGED all_events
                       ELSE LET oldest_date == OldestDate(filtered_events)
                                new_end_date == oldest_date - 1
                            IN  /\ all_events' = all_events \o filtered_events
                                /\ IF oldest_date <= from_date
                                      \/ new_end_date < from_date
                                   THEN NewsBreak
                                   ELSE /\ current_end_date' = new_end_date
                                        /\ UNCHANGED fetch_pc
    /\ UNCHANGED <<from_date, to_date, batch_days, current_date, all_ticks,
                   remote_news, remote_skew>>
    /\ UNCHANGED scriptvars

\* the while condition of fetch_company_news_batch is false
NewsReturn ==
    /\ fetch_pc = "news_loop"
    /\ ~(current_end_date >= from_date /\ iteration < max_iterations)
    /\ fetch_pc' = "news_returned"
    /\ UNCHANGED <<from_date, to_date, batch_days, current_date, all_ticks,
                   current_end_date, iteration, all_events, remote_news,
                   remote_skew, fetches>>
    /\ UNCHANGED scriptvars

(***************************************************************************)
(* Specification SpecFetch: one call of a batch method, for every pair of  *)
(* dates, every batch_days from 1 to MaxBatchDays and every set of items   *)
(* the news service may hold; SpecFetchFair: the call goes on.             *)
(***************************************************************************)
InitFetch ==
    /\ market_ticks = {}
    /\ ai_news_events = {}
    /\ news_impact_analysis = {}
    /\ NoRun
    /\ inserted_count = 0
    /\ last_op = "init"
    /\ repeated = FALSE
    /\ NoSteps
    /\ from_date \in Dates
    /\ to_date \in Dates
    /\ all_ticks = <<>>
    /\ all_events = <<>>
    /\ iteration = 0
    /\ fetches = <<>>
    /\ \/ /\ fetch_pc = "ohlcv_loop"
          /\ batch_days \in 1..MaxBatchDays
          /\ current_date = from_date
          /\ current_end_date = 0
          /\ remote_news = {}
          /\ remote_skew = 0
       \/ /\ fetch_pc = "news_loop"
          /\ batch_days = 0
          /\ current_date = 0
          /\ current_end_date = to_date
          /\ remote_news \in SUBSET Dates
          /\ remote_skew \in {0, 1}

NextFetch ==
    \/ OhlcvBatch
    \/ OhlcvReturn
    \/ NewsBatch
    \/ NewsReturn

SpecFetch == InitFetch /\ [][NextFetch]_vars

SpecFetchFair == SpecFetch /\ WF_vars(NextFetch)

(***************************************************************************)
(* C28: for batch_days >= 1, fetch_ohlcv_bars_batch comes to its return;   *)
(* its fetches are for ranges of 1 to batch_days days that follow one      *)
(* another from from_date, none beyond to_date, and once it has returned   *)
(* every date from from_date to to_date lies in exactly one range; with    *)
(* from_date > to_date it makes no fetch and returns [].  all_ticks is     *)
(* what the fetches gave, [] for a fetch that failed, and a failed fetch   *)
(* is followed by the fetch of the next range.                             *)
(***************************************************************************)
RECURSIVE Concat(_)
Concat(lists) ==
    IF lists = <<>> THEN <<>> ELSE Head(lists) \o Concat(Tail(lists))

RangesInOrder ==
    fetch_pc \in {"ohlcv_loop", "ohlcv_returned"} =>
        /\ batch_days >= 1
        /\ \A i \in 1..Len(fetches) :
               /\ fetches[i].from_date <= fetches[i].to_date
               /\ fetches[i].to_date - fetches[i].from_date + 1 <= batch_days
               /\ fetches[i].to_date <= to_date
               /\ fetches[i].from_date =
                      IF i = 1 THEN from_date ELSE fetches[i - 1].to_date + 1
        /\ all_ticks = Concat([i \in 1..Len(fetches) |-> fetches[i].out])
        /\ fetch_pc = "ohlcv_returned" =>
               /\ \A d \in Dates :
                      Cardinality({i \in 1..Len(fetches) :
                                      fetches[i].from_date <= d
                                      /\ d <= fetches[i].to_date})
                          = IF from_date <= d /\ d <= to_date THEN 1 ELSE 0
               /\ from_date > to_date => fetches = <<>> /\ all_ticks = <<>>

C28_RangesCoverTheDates ==
    /\ []RangesInOrder
    /\ (fetch_pc = "ohlcv_loop" ~> fetch_pc = "ohlcv_returned")

\* three ranges, the last one shorter than batch_days, the second fetch
\* failed and the third gave its bars
C28_Witness ==
    /\ fetch_pc = "ohlcv_returned"
    /\ Len(fetches) = 3
    /\ batch_days = 2
    /\ fetches[3].to_date = fetches[3].from_date
    /\ fetches[1].out # <<>>
    /\ fetches[2].out = <<>>
    /\ fetches[3].out # <<>>

(***************************************************************************)
(* C29: fetch_company_news_batch comes to its return; it makes at most     *)
(* max_iterations fetches, each with an end date before the end date of    *)
(* the fetch before it and none with an end date before from_date; every   *)
(* event of all_events is dated from from_date to to_date; and each        *)
(* iteration leaves the events gathered before it at the head of           *)
(* all_events, a failed or empty fetch leaving all_events as it is.        *)
(***************************************************************************)
BackfillBounded ==
    fetch_pc \in {"news_loop", "news_returned"} =>
        /\ iteration = Len(fetches)
        /\ Len(fetches) <= max_iterations
        /\ \A i \in 1..Len(fetches) : fetches[i].to_date >= from_date
        /\ \A k \in 1..Len(all_events) : InTargetRange(all_events[k])

EndDateDecreases ==
    fetch_pc \in {"news_loop", "news_returned"} =>
        \A i \in 1..(Len(fetches) - 1) :
            fetches[i + 1].to_date < fetches[i].to_date

EarlierEventsKept ==
    fetch_pc = "news_loop" =>
        /\ Len(all_events') >= Len(all_events)
        /\ SubSeq(all_events', 1, Len(all_events)) = all_events
        /\ (Len(fetches') > Len(fetches)
            /\ (fetches'[Len(fetches')].out.outcome # "list"
                \/ fetches'[Len(fetches')].out.events = <<>>)) =>
               /\ all_events' = all_events
               /\ fetch_pc' = "news_returned"

C29_BackfillEndDateDecreases ==
    /\ []BackfillBounded
    /\ []EndDateDecreases
    /\ [][EarlierEventsKept]_vars
    /\ (fetch_pc = "news_loop" ~> fetch_pc = "news_returned")

====
